---- MODULE Spec2Model ----
(***************************************************************************)
(* State-machine model of scripts/build_json.py (the daily builder of      *)
(* data/latest.json): discovery, dedupe, fetch + normalise, recency        *)
(* filter, scoring/selection, LLM signal extraction with its heuristic     *)
(* fallback, report synthesis and the artifact write.  SpecDedupe and      *)
(* SpecSelect run dedupe() and the filter and selection steps on their own *)
(* inputs; SpecLegacy is the single-source builder scripts:build_json.py.  *)
(*                                                                         *)
(* Time is counted in whole hours.  Text bodies are represented by their   *)
(* length in characters.  Confidences are counted in hundredths            *)
(* (35 stands for 0.35).                                                   *)
(***************************************************************************)
EXTENDS Integers, Sequences, FiniteSets, TLC

VARIABLES
    OPENAI_API_KEY,      \* TRUE iff the environment sets a non-empty key
    SIGNAL_LIMIT,        \* int(os.getenv("SIGNAL_LIMIT", "8"))
    TOP_TEXTS,           \* int(os.getenv("TOP_TEXTS", "10"))
    web,                 \* the snapshot of pages behind the candidate urls
    now,                 \* the wall clock, now_utc(), in hours
    pc,                  \* position of main()
    items,               \* main(): items
    idx,                 \* index of the loop of main() that is running
    enriched,            \* main(): enriched
    sources,             \* main(): sources
    enriched_recent,     \* main(): enriched_recent
    filter_now,          \* clock reading of the recency filter's is_recent() calls
    selected,            \* main(): selected
    signals,             \* main(): signals
    stages,              \* extractor steps run so far, in order
    calls,               \* backend calls made so far, in order
    failures,            \* the fetches that failed in the running block of main()
    fetches,             \* network requests made so far, in order
    report_md,           \* main(): report_md
    report_used_sources, \* main(): report_used_sources
    data_dir,            \* TRUE iff the output directory data/ exists
    artifact             \* content of data/latest.json (None when absent)

vars == << OPENAI_API_KEY, SIGNAL_LIMIT, TOP_TEXTS, web, now, pc,
           items, idx, enriched, sources, enriched_recent, filter_now, selected,
           signals, stages, calls, failures, fetches, report_md,
           report_used_sources, data_dir, artifact >>

-----------------------------------------------------------------------------
(* Bounds of the model *)

MaxCandidates == 3
MaxTicks == 1
MaxSignalLimit == 3

-----------------------------------------------------------------------------
(* Configuration defaults of build_json.py *)

COMPANY == "Pernod Ricard"
LOOKBACK_DAYS == 7
LOOKBACK_HOURS == LOOKBACK_DAYS * 24
MAX_PER_SOURCE == 8
MIN_TEXT_CHARS_ARTICLE == 600
MIN_TEXT_CHARS_LINKEDIN == 140
DEFAULT_TOP_TEXTS == 10
REPORT_MAX_TEXTS == 12
GOOGLE_NEWS_LANGS == << "de", "en" >>

\* Python's None is the empty sequence, a present value x is << x >>.
None == << >>
Some(x) == << x >>
Min(a, b) == IF a <= b THEN a ELSE b
Max(a, b) == IF a >= b THEN a ELSE b

\* Python's s[:n] for a list s and any integer n (a negative n counts from the end).
Slice(s, n) ==
    IF n >= 0 THEN SubSeq(s, 1, Min(n, Len(s)))
    ELSE SubSeq(s, 1, Max(0, Len(s) + n))

-----------------------------------------------------------------------------
(* URLs.  A url is kept as the parts urlsplit() cuts it into: netloc, path *)
(* without its trailing slashes, the number of trailing slashes, the query *)
(* parameters in order, whether it has a fragment, and whether urlsplit()  *)
(* rejects it.  The empty string is EmptyUrl.                              *)

Url(h, p, s, q, f) ==
    [host |-> h, path |-> p, slash |-> s, query |-> q, frag |-> f, bad |-> FALSE]

EmptyUrl == Url("", "", 0, << >>, FALSE)

\* str.lower() on the strings that occur in urls
LowerTable ==
    [s \in {"EX.com", "/media/A", "B"} |->
        CASE s = "EX.com" -> "ex.com"
          [] s = "/media/A" -> "/media/a"
          [] s = "B" -> "b"]

LowerStr(s) == IF s \in DOMAIN LowerTable THEN LowerTable[s] ELSE s

\* code points, the order sorted() uses on the query parameters
Ord(c) == CASE c = "B" -> 66 [] c = "a" -> 97 [] c = "b" -> 98 [] OTHER -> 0

lower(u) ==
    [u EXCEPT !.host = LowerStr(u.host), !.path = LowerStr(u.path),
              !.query = [i \in DOMAIN u.query |-> LowerStr(u.query[i])]]

norm_url(u) ==
    IF u.bad THEN u
    ELSE [u EXCEPT !.slash = 0,
                   !.query = SortSeq(u.query, LAMBDA a, b : Ord(a) < Ord(b)),
                   !.frag = FALSE]

DedupeKeyCaseSensitive(u) == norm_url(u)

\* dedupe(): val = norm_url(it.get(key, "")).lower()
DedupeKey(u) == lower(norm_url(u))

RECURSIVE dedupe_loop(_, _, _)
dedupe_loop(its, seen, out) ==
    IF its = << >> THEN out
    ELSE LET it == Head(its)
             val == DedupeKey(it.url)
         IN  IF val = EmptyUrl \/ val \in seen
             THEN dedupe_loop(Tail(its), seen, out)
             ELSE dedupe_loop(Tail(its), seen \cup {val}, Append(out, it))

dedupe(its) == dedupe_loop(its, {}, << >>)

-----------------------------------------------------------------------------
(* The candidates of the discoverers *)

Item(u, t, src, dt, pre) ==
    [url |-> u, title |-> t, source |-> src, published_at |-> dt,
     prefetched_text |-> pre]

U1  == Url("ex.com", "/media/a", 0, << >>, FALSE)
U1v == Url("EX.com", "/media/A", 1, << >>, TRUE)
U2  == Url("ex.com", "/media/b", 0, << >>, FALSE)
U3  == Url("news.com", "/story", 0, << "b", "a" >>, FALSE)
L1  == Url("linkedin.com", "/posts/1", 0, << >>, FALSE)
L1f == Url("linkedin.com", "/posts/1", 0, << >>, TRUE)
UAbout == Url("ex.com", "/about", 0, << >>, FALSE)

\* "/media/" in href
HasMediaSegment(u) == u.path \in {"/media/a", "/media/b", "/media/A"}

\* src.startswith("linkedin") or "linkedin.com" in url
IsLinkedin(src, u) ==
    \/ src \in {"linkedin:rss", "linkedin:gnews:de", "linkedin:gnews:en"}
    \/ u.host = "linkedin.com"

\* Snapshot of the newsroom index page: its anchors, in document order.
NewsroomIndex ==
    << [href |-> U1, text |-> "Press A"],
       [href |-> UAbout, text |-> "About"],
       [href |-> U1, text |-> "Press A (teaser)"],
       [href |-> U2, text |-> ""] >>

Entry(l, t, dt, sum) == [link |-> l, title |-> t, published |-> dt, summary |-> sum]

\* Snapshot of the Google News feed of a language.
\* The "de" feed lists one story more often than MAX_PER_SOURCE times (syndication).
GoogleNewsFeed(lang) ==
    IF lang = "de"
    THEN << Entry(U1v, "News A", Some(0 - 1), 0) >>
         \o [i \in 1..MAX_PER_SOURCE |-> Entry(U1v, "News A (syndicated)", Some(0 - 1), 0)]
    ELSE << Entry(U3, "Story", Some(0 - LOOKBACK_HOURS), 0) >>

LINKEDIN_RSS_URLS == << "rsshub" >>
INCLUDE_GNEWS_LINKEDIN == TRUE

\* Snapshot of a configured LinkedIn RSS feed; the summary is its text length.
LinkedinRssFeed(feed_url) == << Entry(L1, "", None, 150) >>

\* Snapshot of the Google News site:linkedin.com feed of a language.
GNewsLinkedinFeed(lang) ==
    IF lang = "de"
    THEN << Entry(EmptyUrl, "", None, 0) >>
    ELSE << Entry(L1f, "Post via GNews", Some(0 - 2), 0) >>

RECURSIVE newsroom_loop(_, _, _, _)
newsroom_loop(links, seen, out, max_items) ==
    IF links = << >> THEN out
    ELSE LET l == Head(links) IN
         IF l.href \in seen THEN newsroom_loop(Tail(links), seen, out, max_items)
         ELSE LET out2 == Append(out, Item(l.href, l.title, "newsroom", None, 0)) IN
              IF Len(out2) >= max_items THEN out2
              ELSE newsroom_loop(Tail(links), seen \cup {l.href}, out2, max_items)

\* discover_from_newsroom(); ok is whether fetch(index_url) succeeded
discover_from_newsroom(ok, max_items) ==
    IF ~ok THEN << >>
    ELSE LET media == SelectSeq(NewsroomIndex, LAMBDA a : HasMediaSegment(a.href))
             links == [i \in DOMAIN media |->
                          [href |-> media[i].href,
                           title |-> IF media[i].text = "" THEN "Pernod Ricard - Media"
                                     ELSE media[i].text]]
         IN  newsroom_loop(links, {}, << >>, max_items)

\* one feed of a feed discoverer: entries[:max_items] turned into candidates
FeedItems(feed, max_items, default_title, src, with_text) ==
    LET es == Slice(feed, max_items) IN
    [i \in DOMAIN es |->
        Item(es[i].link,
             IF es[i].title = "" THEN default_title ELSE es[i].title,
             src, es[i].published,
             IF with_text THEN es[i].summary ELSE 0)]

GNewsSource(lang) == IF lang = "de" THEN "google-news:de" ELSE "google-news:en"
LinkedinGNewsSource(lang) ==
    IF lang = "de" THEN "linkedin:gnews:de" ELSE "linkedin:gnews:en"

\* discover_from_google_news(); failed are the languages whose feed raises
RECURSIVE google_news_loop(_, _)
google_news_loop(langs, failed) ==
    IF langs = << >> THEN << >>
    ELSE (IF Head(langs) \in failed THEN << >>
          ELSE FeedItems(GoogleNewsFeed(Head(langs)), MAX_PER_SOURCE, "News",
                         GNewsSource(Head(langs)), FALSE))
         \o google_news_loop(Tail(langs), failed)

discover_from_google_news(failed) == google_news_loop(GOOGLE_NEWS_LANGS, failed)

\* discover_from_linkedin_rss(); failed are the feed urls whose feed raises
RECURSIVE linkedin_rss_loop(_, _, _)
linkedin_rss_loop(feed_urls, failed, max_items) ==
    IF feed_urls = << >> THEN << >>
    ELSE (IF Head(feed_urls) \in failed THEN << >>
          ELSE FeedItems(LinkedinRssFeed(Head(feed_urls)), max_items, "LinkedIn",
                         "linkedin:rss", TRUE))
         \o linkedin_rss_loop(Tail(feed_urls), failed, max_items)

discover_from_linkedin_rss(failed, max_items) ==
    linkedin_rss_loop(LINKEDIN_RSS_URLS, failed, max_items)

\* discover_from_google_news_linkedin(); failed are the languages whose feed raises
RECURSIVE gnews_linkedin_loop(_, _, _)
gnews_linkedin_loop(langs, failed, max_items) ==
    IF langs = << >> THEN << >>
    ELSE (IF Head(langs) \in failed THEN << >>
          ELSE FeedItems(GNewsLinkedinFeed(Head(langs)), max_items,
                         "LinkedIn (via GNews)", LinkedinGNewsSource(Head(langs)), FALSE))
         \o gnews_linkedin_loop(Tail(langs), failed, max_items)

discover_from_google_news_linkedin(failed, max_items) ==
    gnews_linkedin_loop(GOOGLE_NEWS_LANGS, failed, max_items)

Range(s) == {s[i] : i \in DOMAIN s}

-----------------------------------------------------------------------------
(* Pages behind the candidate urls: text is the length of the cleaned body, *)
(* meta_date what extract_published_at() recovers from the page.            *)

Page(len, dt) == [text |-> len, meta_date |-> dt]

WebUrls == {U1, U1v, U2, U3, L1, L1f}

WebA ==
    [u \in WebUrls |->
        CASE u \in {U1, U1v} -> Page(1500, Some(0 - 1))
          [] u = U2 -> Page(MIN_TEXT_CHARS_ARTICLE - 1, None)
          [] u = U3 -> Page(900, Some(0 - LOOKBACK_HOURS - 1))
          [] OTHER -> Page(150, None)]

WebB ==
    [u \in WebUrls |->
        CASE u \in {U1, U1v} -> Page(700, None)
          [] u = U2 -> Page(3000, Some(0 - LOOKBACK_HOURS - 1))
          [] u = U3 -> Page(MIN_TEXT_CHARS_ARTICLE, None)
          [] OTHER -> Page(MIN_TEXT_CHARS_LINKEDIN - 1, None)]

Webs == {WebA, WebB}

-----------------------------------------------------------------------------
(* Recency and scoring *)

is_recent_reversed(dt, hours, t) == (dt - t) <= hours

\* is_recent(dt, hours), with t the reading of now_utc()
is_recent(dt, hours, t) == (t - dt) <= hours

\* the lookback loop of main()
RecencyFilter(docs, t) ==
    SelectSeq(docs, LAMBDA a : a.published_at = None
                               \/ is_recent(a.published_at[1], LOOKBACK_HOURS, t))

\* score(a) = L / 1500 + bonus + li_bonus, with bonus = 1 / max(1, hours since
\* publication) when the date is known and li_bonus = 0.2 for LinkedIn.
\* ScoreBase is 1500 * (L / 1500 + li_bonus); the bonus is ScoreBonus / ScoreHours.
ScoreBase(a) == a.text + (IF IsLinkedin(a.source, a.url) THEN 300 ELSE 0)
ScoreBonus(a) == IF a.published_at = None THEN 0 ELSE 1
ScoreHours(a, t) == IF a.published_at = None THEN 1 ELSE Max(1, t - a.published_at[1])

\* score(a) > score(b), both computed at clock reading t
ScoreGreater(a, b, t) ==
    (ScoreBase(a) - ScoreBase(b)) * ScoreHours(a, t) * ScoreHours(b, t)
    > 1500 * (ScoreBonus(b) * ScoreHours(a, t) - ScoreBonus(a) * ScoreHours(b, t))

RECURSIVE InsertBeforeTies(_, _, _)
InsertBeforeTies(sorted, a, t) ==
    IF sorted = << >> THEN << a >>
    ELSE IF ~ScoreGreater(Head(sorted), a, t) THEN << a >> \o sorted
         ELSE << Head(sorted) >> \o InsertBeforeTies(Tail(sorted), a, t)

\* list.sort(key=score, reverse=True): stable, descending
RECURSIVE InsertByScore(_, _, _)
InsertByScore(sorted, a, t) ==
    IF sorted = << >> THEN << a >>
    ELSE IF ScoreGreater(a, Head(sorted), t) THEN << a >> \o sorted
         ELSE << Head(sorted) >> \o InsertByScore(Tail(sorted), a, t)

RECURSIVE SortByScoreFrom(_, _, _)
SortByScoreFrom(docs, acc, t) ==
    IF docs = << >> THEN acc
    ELSE SortByScoreFrom(Tail(docs), InsertByScore(acc, Head(docs), t), t)

SortByScore(docs, t) == SortByScoreFrom(docs, << >>, t)

-----------------------------------------------------------------------------
(* Signals.  A JSON value that is missing is "<absent>", one that is not a  *)
(* string is "<nonstring>".  A signal's value keeps its shape ("mapping",   *)
(* "absent", or "notmapping" for a string, number, list or null).           *)

BATCH_MIN_SIGNALS == 3
BACKFILL_MAX_DOCS == 6
PER_ARTICLE_MAX == 2
SUMMARY_CHARS == 280

Value(shape, headline, topic) ==
    [shape |-> shape, headline |-> headline, topic |-> topic,
     summary |-> "<absent>", summary_len |-> 0, note |-> "<absent>"]

RawSignal(type, confidence, value) ==
    [dict |-> TRUE, type |-> type, confidence |-> confidence, value |-> value]

NotADict == [dict |-> FALSE, type |-> "<absent>", confidence |-> "<absent>",
             value |-> Value("absent", "<absent>", "<absent>")]

\* float(s.get("confidence", 0.5)) in hundredths; ok is FALSE when float() raises
FloatOf(raw) ==
    CASE raw = "0.9" -> [ok |-> TRUE, nan |-> FALSE, v |-> 90]
      [] raw = "1.5" -> [ok |-> TRUE, nan |-> FALSE, v |-> 150]
      [] raw = "-0.2" -> [ok |-> TRUE, nan |-> FALSE, v |-> 0 - 20]
      [] raw = "NaN" -> [ok |-> TRUE, nan |-> TRUE, v |-> 0]
      [] raw = "<absent>" -> [ok |-> TRUE, nan |-> FALSE, v |-> 50]
      [] OTHER -> [ok |-> FALSE, nan |-> FALSE, v |-> 0]

\* c = float(...) or 0.5 on failure; max(0.0, min(1.0, c)): min(1.0, nan) is 1.0
Confidence(raw) ==
    LET f == FloatOf(raw) IN
    IF ~f.ok THEN 50
    ELSE IF f.nan THEN 100
    ELSE Max(0, Min(100, f.v))

\* str(s.get("type", "summary"))
TypeOf(raw) ==
    CASE raw = "<absent>" -> "summary"
      [] raw = "<nonstring>" -> "None"
      [] OTHER -> raw

ValidateSignal(s) ==
    [type |-> TypeOf(s.type), confidence |-> Confidence(s.confidence), value |-> s.value]

\* json.loads(...) and the validation loop of llm_batch_signals / llm_per_article;
\* every failure inside the try block yields []
ParseSignals(resp) ==
    IF resp.kind # "signals" THEN << >>
    ELSE LET dicts == SelectSeq(resp.entries, LAMBDA s : s.dict)
         IN  [i \in DOMAIN dicts |-> ValidateSignal(dicts[i])]

llm_batch_signals(resp, limit) ==
    IF ~OPENAI_API_KEY THEN << >> ELSE Slice(ParseSignals(resp), limit)

llm_per_article(resp) ==
    IF ~OPENAI_API_KEY THEN << >> ELSE Slice(ParseSignals(resp), PER_ARTICLE_MAX)

\* str.strip().lower() on the headlines and topics that occur
StripLower(str) ==
    CASE str = "Deal" -> "deal"
      [] str = "deal " -> "deal"
      [] str = "Q3" -> "q3"
      [] str = "M&A" -> "m&a"
      [] str = "<absent>" -> ""
      [] OTHER -> str

\* whether the key computation of main()'s dedup loop raises on signal s
KeyRaises(s) ==
    \/ s.value.shape = "notmapping"
    \/ s.value.headline = "<nonstring>"
    \/ s.value.topic = "<nonstring>"

SignalKeyVerbatim(s) == << s.value.headline, s.value.topic >>

\* key = (val.get("headline", "").strip().lower(), val.get("topic", "").strip().lower())
SignalKey(s) == << StripLower(s.value.headline), StripLower(s.value.topic) >>

RECURSIVE dedup_signals_loop(_, _, _)
dedup_signals_loop(sigs, keys, out) ==
    IF sigs = << >> THEN out
    ELSE IF SignalKey(Head(sigs)) \in keys
         THEN dedup_signals_loop(Tail(sigs), keys, out)
         ELSE dedup_signals_loop(Tail(sigs), keys \cup {SignalKey(Head(sigs))},
                                 Append(out, Head(sigs)))

\* dedup = {}; ...; signals = list(dedup.values())[:SIGNAL_LIMIT]
DedupSignalsUntruncated(sigs, limit) == dedup_signals_loop(sigs, {}, << >>)

DedupSignals(sigs, limit) == Slice(dedup_signals_loop(sigs, {}, << >>), limit)

heuristic_summary_last(company, texts) ==
    IF texts = << >>
    THEN << [type |-> "summary", confidence |-> 20,
             value |-> [Value("mapping", company, "<absent>") EXCEPT
                          !.summary = "Keine verwertbaren Texte gefunden.",
                          !.note = "Fallback"]] >>
    ELSE LET head == texts[Len(texts)] IN
         << [type |-> "summary", confidence |-> 35,
             value |-> [Value("mapping", head.title, "<absent>") EXCEPT
                          !.summary = "<excerpt>",
                          !.summary_len = Min(head.text, SUMMARY_CHARS),
                          !.note = "Fallback"]] >>

heuristic_summary(company, texts) ==
    IF texts = << >>
    THEN << [type |-> "summary", confidence |-> 20,
             value |-> [Value("mapping", company, "<absent>") EXCEPT
                          !.summary = "Keine verwertbaren Texte gefunden.",
                          !.note = "Fallback"]] >>
    ELSE LET head == texts[1] IN
         << [type |-> "summary", confidence |-> 35,
             value |-> [Value("mapping", IF head.title # "" THEN head.title ELSE company,
                              "<absent>") EXCEPT
                          !.summary = "<excerpt>",
                          !.summary_len = Min(head.text, SUMMARY_CHARS),
                          !.note = "Fallback"]] >>

-----------------------------------------------------------------------------
(* Report synthesis *)

ReportSourcesAll(texts, srcs, max_texts) == srcs

\* use_texts = texts[:max_texts]; the sources whose url is one of theirs
ReportSources(texts, srcs, max_texts) ==
    LET use_texts == Slice(texts, max_texts)
        selected_urls == {use_texts[i].url : i \in DOMAIN use_texts}
    IN  SelectSeq(srcs, LAMBDA src : src.url \in selected_urls)

\* what the chat completion of the report call does: it raises (or returns no
\* content, so that .strip() raises), returns blank text, or returns a report
ReportOutcomes == {"exception", "blank", "text"}

\* resp.choices[0].message.content.strip()
ReportText(outcome) == IF outcome = "text" THEN "## Executive Summary" ELSE ""

llm_generate_report_markdown_uncaught(texts, sigs, srcs, outcome) ==
    IF ~OPENAI_API_KEY THEN [md |-> "", used |-> << >>]
    ELSE [md |-> ReportText(outcome),
          used |-> ReportSources(texts, srcs, REPORT_MAX_TEXTS)]

\* llm_generate_report_markdown(): the pair (md, sources_for_report)
llm_generate_report_markdown(texts, sigs, srcs, outcome) ==
    IF ~OPENAI_API_KEY THEN [md |-> "", used |-> << >>]
    ELSE IF outcome = "exception" THEN [md |-> "", used |-> << >>]
    ELSE [md |-> ReportText(outcome),
          used |-> ReportSources(texts, srcs, REPORT_MAX_TEXTS)]

-----------------------------------------------------------------------------
(* Responses of the extraction backend *)

SigDeal   == RawSignal("financial", "0.9", Value("mapping", "Deal", "m&a"))
SigDealUp == RawSignal("strategy", "1.5", Value("mapping", "deal ", "M&A"))
SigQ3     == RawSignal("<absent>", "abc", Value("mapping", "Q3", "<absent>"))
SigAsia   == RawSignal("<nonstring>", "-0.2", Value("mapping", "<absent>", "asia"))
SigNoType == RawSignal("", "NaN", Value("absent", "<absent>", "<absent>"))
SigText   == RawSignal("risks", "0.9", Value("notmapping", "<absent>", "<absent>"))
SigNull   == RawSignal("risks", "<absent>", Value("mapping", "<nonstring>", "x"))

Resp(kind, entries) == [kind |-> kind, entries |-> entries]

BatchResponses ==
    { Resp("exception", << >>), Resp("not_json", << >>), Resp("array", << >>),
      Resp("signals", << SigDeal >>),
      Resp("signals", << SigDeal, NotADict, SigDealUp, SigQ3 >>),
      Resp("signals", << SigDeal, SigNoType, SigQ3, SigAsia >>),
      Resp("signals", << SigText >>) }

ArticleResponses ==
    { Resp("exception", << >>),
      Resp("signals", << SigQ3 >>),
      Resp("signals", << SigAsia, SigDealUp, SigDeal >>),
      Resp("signals", << SigNull >>) }

\* a backend call: what was asked (the document, the closed source list), how the
\* backend answered, and how many signals the call returned to main()
Call(kind, doc, given, outcome, yielded) ==
    [kind |-> kind, doc |-> doc, given |-> given, outcome |-> outcome,
     yielded |-> yielded]

\* a network request: the discovery endpoint asked, or the page of candidate doc
Fetch(name, doc) == [name |-> name, doc |-> doc]

\* the requests of the discoverers of a run, in the order main() calls them
DiscoveryFetches ==
    << Fetch("newsroom", 0) >>
    \o [i \in DOMAIN GOOGLE_NEWS_LANGS |-> Fetch(GNewsSource(GOOGLE_NEWS_LANGS[i]), 0)]
    \o (IF LINKEDIN_RSS_URLS # << >>
        THEN [i \in DOMAIN LINKEDIN_RSS_URLS |-> Fetch(LINKEDIN_RSS_URLS[i], 0)]
        ELSE << >>)
    \o (IF INCLUDE_GNEWS_LINKEDIN
        THEN [i \in DOMAIN GOOGLE_NEWS_LANGS |->
                Fetch(LinkedinGNewsSource(GOOGLE_NEWS_LANGS[i]), 0)]
        ELSE << >>)

-----------------------------------------------------------------------------
(* main() *)

Init ==
    /\ OPENAI_API_KEY \in BOOLEAN
    /\ SIGNAL_LIMIT \in 0..MaxSignalLimit
    /\ TOP_TEXTS \in {1, DEFAULT_TOP_TEXTS}
    /\ web \in Webs
    /\ now = 0
    /\ pc = "newsroom"
    /\ items = << >>
    /\ idx = 0
    /\ enriched = << >>
    /\ sources = << >>
    /\ enriched_recent = << >>
    /\ filter_now = None
    /\ selected = << >>
    /\ signals = << >>
    /\ stages = << >>
    /\ calls = << >>
    /\ failures = {}
    /\ fetches = << >>
    /\ report_md = ""
    /\ report_used_sources = << >>
    /\ data_dir = FALSE
    /\ artifact = None

config == << OPENAI_API_KEY, SIGNAL_LIMIT, TOP_TEXTS, web >>
fetched == << enriched, sources >>
extraction == << signals, stages, calls >>
report == << report_md, report_used_sources >>

\* the wall clock advances before a step that reads it
Tick ==
    /\ pc \in {"filter", "select"}
    /\ UNCHANGED data_dir
    /\ UNCHANGED << failures, fetches >>
    /\ now < MaxTicks
    /\ now' = now + 1
    /\ UNCHANGED << config, pc, items, idx, fetched, enriched_recent,
                    filter_now, selected, extraction, report, artifact >>

DiscoverNewsroom ==
    /\ pc = "newsroom"
    /\ UNCHANGED data_dir
    /\ \E ok \in BOOLEAN :
          /\ items' = items \o discover_from_newsroom(ok, MAX_PER_SOURCE)
          /\ failures' = IF ok THEN failures ELSE failures \cup {"newsroom"}
    /\ fetches' = Append(fetches, Fetch("newsroom", 0))
    /\ pc' = "google_news"
    /\ UNCHANGED << config, now, idx, fetched, enriched_recent,
                    filter_now, selected, extraction, report, artifact >>

DiscoverGoogleNews ==
    /\ pc = "google_news"
    /\ UNCHANGED data_dir
    /\ \E failed \in SUBSET Range(GOOGLE_NEWS_LANGS) :
          /\ items' = items \o discover_from_google_news(failed)
          /\ failures' = failures \cup {GNewsSource(lang) : lang \in failed}
    /\ fetches' = fetches \o [i \in DOMAIN GOOGLE_NEWS_LANGS |->
                                Fetch(GNewsSource(GOOGLE_NEWS_LANGS[i]), 0)]
    /\ pc' = "linkedin_rss"
    /\ UNCHANGED << config, now, idx, fetched, enriched_recent,
                    filter_now, selected, extraction, report, artifact >>

DiscoverLinkedinRss ==
    /\ pc = "linkedin_rss"
    /\ UNCHANGED data_dir
    /\ \E failed \in SUBSET Range(LINKEDIN_RSS_URLS) :
          /\ items' = IF LINKEDIN_RSS_URLS # << >>
                      THEN items \o discover_from_linkedin_rss(failed, MAX_PER_SOURCE)
                      ELSE items
          /\ failures' = failures \cup failed
    /\ fetches' = IF LINKEDIN_RSS_URLS # << >>
                  THEN fetches \o [i \in DOMAIN LINKEDIN_RSS_URLS |->
                                     Fetch(LINKEDIN_RSS_URLS[i], 0)]
                  ELSE fetches
    /\ pc' = "gnews_linkedin"
    /\ UNCHANGED << config, now, idx, fetched, enriched_recent,
                    filter_now, selected, extraction, report, artifact >>

DiscoverGNewsLinkedin ==
    /\ pc = "gnews_linkedin"
    /\ UNCHANGED data_dir
    /\ \E failed \in SUBSET Range(GOOGLE_NEWS_LANGS) :
          /\ items' = IF INCLUDE_GNEWS_LINKEDIN
                      THEN items \o discover_from_google_news_linkedin(failed, MAX_PER_SOURCE)
                      ELSE items
          /\ failures' = failures \cup {LinkedinGNewsSource(lang) : lang \in failed}
    /\ fetches' = IF INCLUDE_GNEWS_LINKEDIN
                  THEN fetches \o [i \in DOMAIN GOOGLE_NEWS_LANGS |->
                                     Fetch(LinkedinGNewsSource(GOOGLE_NEWS_LANGS[i]), 0)]
                  ELSE fetches
    /\ pc' = "dedupe"
    /\ UNCHANGED << config, now, idx, fetched, enriched_recent,
                    filter_now, selected, extraction, report, artifact >>

\* items = dedupe(items, key="url")
Dedupe ==
    /\ pc = "dedupe"
    /\ UNCHANGED data_dir
    /\ failures' = {}
    /\ UNCHANGED fetches
    /\ items' = dedupe(items)
    /\ idx' = 1
    /\ pc' = "fetch"
    /\ UNCHANGED << config, now, fetched, enriched_recent, filter_now, selected,
                    extraction, report, artifact >>

Source(it) == [url |-> it.url, title |-> it.title, source |-> it.source]

TextOfStalePage(it, ok) ==
    IF it.prefetched_text > 0 THEN it.prefetched_text ELSE web[it.url].text

\* the length of the text main() gets for a candidate; ok is whether fetch(url) succeeded
TextOf(it, ok) ==
    IF it.prefetched_text > 0 THEN it.prefetched_text
    ELSE IF ok THEN web[it.url].text ELSE 0

\* the publication time main() resolves: the feed's, else the page's
PublishedOf(it, ok) ==
    IF it.published_at # None THEN it.published_at
    ELSE IF it.prefetched_text = 0 /\ ok THEN web[it.url].meta_date
    ELSE None

MinCharsSocial(it) == MIN_TEXT_CHARS_LINKEDIN

\* min_chars = MIN_TEXT_CHARS_LINKEDIN if ... else MIN_TEXT_CHARS_ARTICLE
MinChars(it) ==
    IF IsLinkedin(it.source, it.url) THEN MIN_TEXT_CHARS_LINKEDIN
    ELSE MIN_TEXT_CHARS_ARTICLE

\* if len(text) >= min_chars: enriched.append({...})
EnrichedAfter(docs, it, ok) ==
    IF TextOf(it, ok) >= MinChars(it)
    THEN Append(docs, [url |-> it.url, title |-> it.title, source |-> it.source,
                       published_at |-> PublishedOf(it, ok), text |-> TextOf(it, ok)])
    ELSE docs

SourcesAfterKeptOnly(srcs, it, ok) ==
    IF TextOf(it, ok) >= MinChars(it) THEN Append(srcs, Source(it)) ELSE srcs

\* sources.append({"url": url, "title": title, "source": src})
SourcesAfter(srcs, it, ok) == Append(srcs, Source(it))

FetchesAfterRetry(log, it, n, ok) ==
    IF it.prefetched_text > 0 THEN log
    ELSE IF ok THEN Append(log, Fetch("page", n))
    ELSE Append(Append(log, Fetch("page", n)), Fetch("page", n))

\* html_ = fetch(url), unless the feed delivered the text
FetchesAfter(log, it, n, ok) ==
    IF it.prefetched_text > 0 THEN log ELSE Append(log, Fetch("page", n))

\* one iteration of the fetch loop of main()
FetchItem ==
    /\ pc = "fetch"
    /\ UNCHANGED data_dir
    /\ idx <= Len(items)
    /\ \E ok \in (IF items[idx].prefetched_text > 0 THEN {TRUE} ELSE BOOLEAN) :
          /\ enriched' = EnrichedAfter(enriched, items[idx], ok)
          /\ sources' = SourcesAfter(sources, items[idx], ok)
          /\ failures' = IF ok THEN {} ELSE {"page"}
          /\ fetches' = FetchesAfter(fetches, items[idx], idx, ok)
    /\ idx' = idx + 1
    /\ UNCHANGED << config, now, pc, items, enriched_recent, filter_now,
                    selected, extraction, report, artifact >>

FetchDone ==
    /\ pc = "fetch"
    /\ UNCHANGED data_dir
    /\ failures' = {}
    /\ UNCHANGED fetches
    /\ idx > Len(items)
    /\ pc' = "filter"
    /\ UNCHANGED << config, now, items, idx, fetched, enriched_recent,
                    filter_now, selected, extraction, report, artifact >>

\* the lookback loop
Filter ==
    /\ pc = "filter"
    /\ UNCHANGED data_dir
    /\ UNCHANGED << failures, fetches >>
    /\ filter_now' = Some(now)
    /\ enriched_recent' = RecencyFilter(enriched, now)
    /\ pc' = "select"
    /\ UNCHANGED << config, now, items, idx, fetched, selected,
                    extraction, report, artifact >>

\* enriched_recent.sort(key=score, reverse=True); selected = enriched_recent[:TOP_TEXTS]
Select ==
    /\ pc = "select"
    /\ UNCHANGED data_dir
    /\ UNCHANGED << failures, fetches >>
    /\ enriched_recent' = SortByScore(enriched_recent, now)
    /\ selected' = Slice(enriched_recent', TOP_TEXTS)
    /\ pc' = "extract"
    /\ UNCHANGED << config, now, items, idx, fetched, filter_now,
                    extraction, report, artifact >>

NeedsBackfillNonEmpty(sigs) == 0 < Len(sigs) /\ Len(sigs) < BATCH_MIN_SIGNALS

\* if len(signals) < 3: the per-document backfill runs
NeedsBackfill(sigs) == Len(sigs) < BATCH_MIN_SIGNALS

BatchStepWithoutDocuments ==
    /\ pc = "extract"
    /\ OPENAI_API_KEY
    /\ \E resp \in BatchResponses :
          /\ signals' = llm_batch_signals(resp, SIGNAL_LIMIT)
          /\ calls' = Append(calls, Call("batch", 0, << >>, resp.kind, Len(signals')))
    /\ stages' = Append(stages, "batch")
    /\ idx' = 1
    /\ pc' = IF NeedsBackfill(signals') /\ selected # << >> THEN "backfill" ELSE "sigdedup"
    /\ UNCHANGED << config, now, items, fetched, enriched_recent, filter_now, selected,
                    failures, fetches, report, data_dir, artifact >>

\* if OPENAI_API_KEY and selected: signals = llm_batch_signals(...)
BatchStep ==
    /\ pc = "extract"
    /\ UNCHANGED data_dir
    /\ UNCHANGED << failures, fetches >>
    /\ OPENAI_API_KEY /\ selected # << >>
    /\ \E resp \in BatchResponses :
          /\ signals' = llm_batch_signals(resp, SIGNAL_LIMIT)
          /\ calls' = Append(calls, Call("batch", 0, << >>, resp.kind, Len(signals')))
    /\ stages' = Append(stages, "batch")
    /\ idx' = 1
    /\ pc' = IF NeedsBackfill(signals') THEN "backfill" ELSE "sigdedup"
    /\ UNCHANGED << config, now, items, fetched, enriched_recent,
                    filter_now, selected, report, artifact >>

\* the extraction block is skipped
SkipExtraction ==
    /\ pc = "extract"
    /\ UNCHANGED data_dir
    /\ UNCHANGED << failures, fetches >>
    /\ ~(OPENAI_API_KEY /\ selected # << >>)
    /\ pc' = "fallback"
    /\ UNCHANGED << config, now, items, idx, fetched, enriched_recent,
                    filter_now, selected, extraction, report, artifact >>

\* one iteration of: for art in selected[:min(6, len(selected))]
BackfillStep ==
    /\ pc = "backfill"
    /\ UNCHANGED data_dir
    /\ UNCHANGED << failures, fetches >>
    /\ idx <= Min(BACKFILL_MAX_DOCS, Len(selected))
    /\ \E resp \in ArticleResponses :
          /\ signals' = signals \o llm_per_article(resp)
          /\ calls' = Append(calls, Call("article", idx, << >>, resp.kind,
                                         Len(llm_per_article(resp))))
    /\ stages' = IF idx = 1 THEN Append(stages, "backfill") ELSE stages
    /\ idx' = idx + 1
    /\ pc' = IF Len(signals') >= SIGNAL_LIMIT
                \/ idx' > Min(BACKFILL_MAX_DOCS, Len(selected))
             THEN "sigdedup" ELSE "backfill"
    /\ UNCHANGED << config, now, items, fetched, enriched_recent,
                    filter_now, selected, report, artifact >>

\* Dedupe by (headline, topic); an AttributeError of the key computation is not caught
DedupStep ==
    /\ pc = "sigdedup"
    /\ UNCHANGED data_dir
    /\ UNCHANGED << failures, fetches >>
    /\ stages' = Append(stages, "dedup")
    /\ IF \E i \in DOMAIN signals : KeyRaises(signals[i])
       THEN /\ pc' = "crashed"
            /\ signals' = signals
       ELSE /\ pc' = "fallback"
            /\ signals' = DedupSignals(signals, SIGNAL_LIMIT)
    /\ UNCHANGED << config, now, items, idx, fetched, enriched_recent,
                    filter_now, selected, calls, report, artifact >>

\* if not signals: signals = heuristic_summary(COMPANY, selected)
Fallback ==
    /\ pc = "fallback"
    /\ UNCHANGED data_dir
    /\ UNCHANGED << failures, fetches >>
    /\ IF signals = << >>
       THEN /\ signals' = heuristic_summary(COMPANY, selected)
            /\ stages' = Append(stages, "fallback")
       ELSE UNCHANGED << signals, stages >>
    /\ pc' = "report"
    /\ UNCHANGED << config, now, items, idx, fetched, enriched_recent,
                    filter_now, selected, calls, report, artifact >>

\* 4b) report_md, report_used_sources = llm_generate_report_markdown(...)
Report ==
    /\ pc = "report"
    /\ UNCHANGED data_dir
    /\ UNCHANGED << failures, fetches >>
    /\ \E outcome \in (IF OPENAI_API_KEY THEN ReportOutcomes ELSE {"exception"}) :
          LET r == llm_generate_report_markdown(selected, signals, sources, outcome) IN
          /\ report_md' = r.md
          /\ report_used_sources' = r.used
          /\ calls' = IF OPENAI_API_KEY
                      THEN Append(calls,
                                  Call("report", 0,
                                       ReportSources(selected, sources, REPORT_MAX_TEXTS),
                                       outcome, 0))
                      ELSE calls
    /\ pc' = "makedirs"
    /\ UNCHANGED << config, now, items, idx, fetched, enriched_recent,
                    filter_now, selected, signals, stages, artifact >>

OutMeta ==
    [company |-> COMPANY,
     generated_at |-> now,
     signals |-> signals,
     sources |-> sources,
     report_markdown |-> report_md,
     report_used_sources |-> report_used_sources,
     meta |-> [lookback_days |-> LOOKBACK_DAYS,
               texts_selected |-> Len(selected)]]

\* out = {...}
Out ==
    [company |-> COMPANY,
     generated_at |-> now,
     signals |-> signals,
     sources |-> sources,
     report_markdown |-> report_md,
     report_used_sources |-> report_used_sources,
     report_meta |-> [lookback_days |-> LOOKBACK_DAYS,
                      texts_selected |-> Len(selected),
                      report_max_texts |-> REPORT_MAX_TEXTS]]

\* the output directory is made by someone else (an earlier run, the checkout)
\* before main() gets to os.makedirs
DirAppears ==
    /\ pc = "makedirs"
    /\ ~data_dir
    /\ data_dir' = TRUE
    /\ UNCHANGED << config, now, pc, items, idx, fetched, enriched_recent,
                    filter_now, selected, extraction, failures, fetches, report, artifact >>

MakeDirsExclusive ==
    /\ pc = "makedirs"
    /\ \E dir_ok \in BOOLEAN :
          IF ~data_dir /\ dir_ok THEN data_dir' = TRUE /\ pc' = "write"
          ELSE data_dir' = data_dir /\ pc' = "aborted"
    /\ UNCHANGED << config, now, items, idx, fetched, enriched_recent,
                    filter_now, selected, extraction, failures, fetches, report, artifact >>

\* 5) os.makedirs("data", exist_ok=True): nothing to do when data/ exists;
\* dir_ok is whether the directory can be created when it does not
MakeDirs ==
    /\ pc = "makedirs"
    /\ \E dir_ok \in BOOLEAN :
          IF data_dir \/ dir_ok THEN data_dir' = TRUE /\ pc' = "write"
          ELSE data_dir' = data_dir /\ pc' = "aborted"
    /\ UNCHANGED << config, now, items, idx, fetched, enriched_recent,
                    filter_now, selected, extraction, failures, fetches, report, artifact >>

\* with open("data/latest.json", "w") as f: json.dump(out, f); file_ok is
\* whether the file can be opened for writing
Write ==
    /\ pc = "write"
    /\ \E file_ok \in BOOLEAN :
          IF file_ok THEN artifact' = Some(Out) /\ pc' = "done"
          ELSE artifact' = artifact /\ pc' = "aborted"
    /\ UNCHANGED << config, now, items, idx, fetched, enriched_recent,
                    filter_now, selected, extraction, failures, fetches, report, data_dir >>

Next ==
    \/ Tick
    \/ DiscoverNewsroom
    \/ DiscoverGoogleNews
    \/ DiscoverLinkedinRss
    \/ DiscoverGNewsLinkedin
    \/ Dedupe
    \/ FetchItem
    \/ FetchDone
    \/ Filter
    \/ Select
    \/ BatchStep
    \/ SkipExtraction
    \/ BackfillStep
    \/ DedupStep
    \/ Fallback
    \/ Report
    \/ DirAppears
    \/ MakeDirs
    \/ Write

Spec == Init /\ [][Next]_vars

-----------------------------------------------------------------------------
(* dedupe() on its own: every candidate list of up to MaxCandidates items   *)
(* over a pool of urls that differ in case, trailing slash, query order and *)
(* fragment, and the 15 candidates of three discoverers of scenario A.      *)

UrlPool ==
    { U1, U1v,
      Url("ex.com", "/media/a", 0, << "b", "a" >>, FALSE),
      Url("ex.com", "/media/a", 0, << "a", "b" >>, FALSE),
      Url("ex.com", "/media/a", 0, << "B", "a" >>, FALSE),
      EmptyUrl,
      Url("", "", 1, << >>, TRUE),
      [U1v EXCEPT !.bad = TRUE] }

CandidatePool ==
    { Item(u, t, "newsroom", None, 0) : u \in UrlPool, t \in {"first", "second"} }

ScenarioPaths ==
    << "/n1", "/n2", "/n3", "/n4", "/n5", "/n6", "/n7", "/n8", "/n9", "/n10",
       "/n11", "/n12", "/n13" >>

ScenarioUrl(n) == Url("ex.com", ScenarioPaths[n], 0, << >>, FALSE)

ScenarioA ==
    [n \in 1..5 |-> Item(ScenarioUrl(n), "Press", "newsroom", None, 0)]
    \o << Item(ScenarioUrl(6), "News", "google-news:de", None, 0),
          Item(ScenarioUrl(7), "News", "google-news:de", None, 0),
          Item([ScenarioUrl(1) EXCEPT !.host = "EX.com", !.slash = 1], "News",
               "google-news:de", None, 0),
          Item(ScenarioUrl(8), "News", "google-news:en", None, 0),
          Item(ScenarioUrl(9), "News", "google-news:en", None, 0),
          Item(ScenarioUrl(10), "Post", "linkedin:rss", None, 150),
          Item([ScenarioUrl(2) EXCEPT !.frag = TRUE], "Post", "linkedin:rss", None, 150),
          Item(ScenarioUrl(11), "Post", "linkedin:rss", None, 150),
          Item(ScenarioUrl(12), "Post", "linkedin:rss", None, 150),
          Item(ScenarioUrl(13), "Post", "linkedin:rss", None, 150) >>

SeqsUpTo(S, n) == UNION { [1..k -> S] : k \in 0..n }

InitDedupe ==
    /\ OPENAI_API_KEY = FALSE
    /\ SIGNAL_LIMIT = MaxSignalLimit
    /\ TOP_TEXTS = DEFAULT_TOP_TEXTS
    /\ web = WebA
    /\ now = 0
    /\ pc = "dedupe"
    /\ items \in SeqsUpTo(CandidatePool, MaxCandidates) \cup {ScenarioA}
    /\ idx = 0
    /\ enriched = << >>
    /\ sources = << >>
    /\ enriched_recent = << >>
    /\ filter_now = None
    /\ selected = << >>
    /\ signals = << >>
    /\ stages = << >>
    /\ calls = << >>
    /\ failures = {}
    /\ fetches = DiscoveryFetches
    /\ report_md = ""
    /\ report_used_sources = << >>
    /\ data_dir = FALSE
    /\ artifact = None

NextDedupe == Dedupe

SpecDedupe == InitDedupe /\ [][NextDedupe]_vars

-----------------------------------------------------------------------------
(* The recency filter and the selection on their own: every list of up to   *)
(* MaxCandidates fetched documents out of a pool with equal scores across   *)
(* origins, a fresh document whose bonus decays, one at the edge of the     *)
(* lookback window and one beyond it.                                       *)

Doc(n, src, dt, len) ==
    [url |-> ScenarioUrl(n), title |-> "Doc", source |-> src, published_at |-> dt,
     text |-> len]

DocPool ==
    { Doc(1, "newsroom", None, 700),
      Doc(2, "google-news:de", None, 700),
      Doc(3, "linkedin:rss", None, 400),
      Doc(4, "google-news:en", Some(0 - 1), 600),
      Doc(5, "google-news:en", Some(0 - LOOKBACK_HOURS), 900),
      Doc(6, "newsroom", Some(0 - LOOKBACK_HOURS - 1), 3000) }

Injective(q) == \A i, j \in DOMAIN q : q[i] = q[j] => i = j

InitSelect ==
    /\ OPENAI_API_KEY = FALSE
    /\ SIGNAL_LIMIT = MaxSignalLimit
    /\ TOP_TEXTS \in {0, 1, 2, DEFAULT_TOP_TEXTS}
    /\ web = WebA
    /\ now = 0
    /\ pc = "filter"
    /\ enriched \in {q \in SeqsUpTo(DocPool, MaxCandidates) : Injective(q)}
    /\ items = [i \in DOMAIN enriched |->
                  Item(enriched[i].url, enriched[i].title, enriched[i].source,
                       enriched[i].published_at, 0)]
    /\ idx = Len(items) + 1
    /\ sources = [i \in DOMAIN items |-> Source(items[i])]
    /\ enriched_recent = << >>
    /\ filter_now = None
    /\ selected = << >>
    /\ signals = << >>
    /\ stages = << >>
    /\ calls = << >>
    /\ failures = {}
    /\ fetches = DiscoveryFetches \o [i \in DOMAIN items |-> Fetch("page", i)]
    /\ report_md = ""
    /\ report_used_sources = << >>
    /\ data_dir = FALSE
    /\ artifact = None

NextSelect ==
    \/ Tick
    \/ Filter
    \/ Select

SpecSelect == InitSelect /\ [][NextSelect]_vars

-----------------------------------------------------------------------------
(* Properties *)

AfterExtraction == pc \in {"report", "makedirs", "write", "done", "aborted"}
ExtractionCalls == SelectSeq(calls, LAMBDA c : c.kind \in {"batch", "article"})
ReportCalls == SelectSeq(calls, LAMBDA c : c.kind = "report")

\* the indices of s whose url key is not empty and occurs at no earlier index
FirstOccurrences(s) ==
    { i \in DOMAIN s :
        /\ lower(norm_url(s[i].url)) # EmptyUrl
        /\ \A j \in 1..(i - 1) : lower(norm_url(s[j].url)) # lower(norm_url(s[i].url)) }

\* the subsequence of s at the indices in I, in order
RECURSIVE Pick(_, _)
Pick(s, I) ==
    IF s = << >> THEN << >>
    ELSE LET rest == Pick(SubSeq(s, 1, Len(s) - 1), I) IN
         IF Len(s) \in I THEN Append(rest, s[Len(s)]) ELSE rest

\* C1: whenever dedupe() runs, no two items of its result have the same
\* norm_url(url).lower(), the result is the input's first occurrences (of the
\* non-empty keys) in their input order, and the 15 candidates of scenario A,
\* two of them duplicates, yield 13.
C1_DedupeFirstOccurrences ==
    [][pc = "dedupe" =>
          /\ \A i, j \in DOMAIN items' :
                i # j => lower(norm_url(items'[i].url)) # lower(norm_url(items'[j].url))
          /\ items' = Pick(items, FirstOccurrences(items))
          /\ (items = ScenarioA => Len(items') = 13)]_vars

\* C1 witness: scenario A has been deduplicated to 13 candidates
C1_Witness == pc = "fetch" /\ Len(items) = 13 /\ items[13].url = ScenarioUrl(13)

\* C2 as stated: in every written artifact, for every configured SIGNAL_LIMIT,
\* the signals list has at least 1 and at most SIGNAL_LIMIT entries.
C2_SignalsWithinAnyLimit ==
    artifact # None =>
        /\ Len(artifact[1].signals) >= 1
        /\ Len(artifact[1].signals) <= SIGNAL_LIMIT

\* C2 amended: in every written artifact the signals list has at least 1 entry,
\* and at most SIGNAL_LIMIT entries whenever SIGNAL_LIMIT is at least 1.
C2_SignalsWithinLimit ==
    artifact # None =>
        /\ Len(artifact[1].signals) >= 1
        /\ (SIGNAL_LIMIT >= 1 => Len(artifact[1].signals) <= SIGNAL_LIMIT)

\* C2 witness: batch and backfill together returned more signals than the limit
\* and the written artifact holds exactly SIGNAL_LIMIT of them
C2_Witness ==
    /\ artifact # None
    /\ SIGNAL_LIMIT = 2
    /\ Len(ExtractionCalls) >= 2
    /\ ExtractionCalls[1].yielded + ExtractionCalls[2].yielded > SIGNAL_LIMIT
    /\ Len(artifact[1].signals) = SIGNAL_LIMIT

\* C3: every signal the pipeline holds (from the batch call, the per-document
\* call or the heuristic fallback) has a confidence in [0, 1] and a type that
\* is a non-empty string.
C3_SignalsWellFormed ==
    \A i \in DOMAIN signals :
        /\ 0 <= signals[i].confidence
        /\ signals[i].confidence <= 100
        /\ signals[i].type # ""

C5_SourcesAreAllCandidates ==
    /\ pc \notin {"newsroom", "google_news", "linkedin_rss", "gnews_linkedin",
                  "dedupe", "fetch"}
          => sources = [i \in DOMAIN items |->
                           [url |-> items[i].url, title |-> items[i].title,
                            source |-> items[i].source]]
    /\ artifact # None => artifact[1].sources = sources

\* C5 witness: an artifact whose sources list candidates that were dropped for
\* length, dropped for age and left out by TOP_TEXTS
C5_Witness ==
    /\ artifact # None
    /\ Len(artifact[1].sources) = Len(items)
    /\ Len(enriched) < Len(items)
    /\ Len(enriched_recent) < Len(enriched)
    /\ Len(selected) < Len(enriched_recent)

\* an extraction call has been made and every one so far returned no signal
AllCallsEmpty == \A i \in DOMAIN ExtractionCalls : ExtractionCalls[i].yielded = 0

\* C6: when the backend is not configured, or every extraction call returned
\* nothing, main() does not raise and after the fallback step signals is exactly
\* one summary signal: confidence 0.2 and the "no usable texts" summary when
\* nothing was selected, else confidence 0.35 and the title of the
\* highest-scored selected document as headline.
C6_FallbackSignal ==
    (~OPENAI_API_KEY \/ AllCallsEmpty) =>
        /\ pc # "crashed"
        /\ AfterExtraction =>
              /\ Len(signals) = 1
              /\ signals[1].type = "summary"
              /\ selected = << >> =>
                    /\ signals[1].confidence = 20
                    /\ signals[1].value.summary = "Keine verwertbaren Texte gefunden."
                    /\ signals[1].value.note = "Fallback"
              /\ selected # << >> =>
                    /\ signals[1].confidence = 35
                    /\ \E i \in DOMAIN selected :
                          /\ signals[1].value.headline = selected[i].title
                          /\ \A j \in DOMAIN selected :
                                ~ScoreGreater(selected[j], selected[i], now)

\* C6 witness: no backend, two selected documents of which the one discovered
\* later scores higher, and the fallback names it
C6_Witness ==
    /\ ~OPENAI_API_KEY
    /\ pc = "done"
    /\ Len(selected) >= 2
    /\ \E i, j \in DOMAIN enriched :
          i < j /\ enriched[j] = selected[1] /\ enriched[i] = selected[2]
    /\ artifact[1].signals[1].value.headline = selected[1].title

\* C7: in a run with the backend configured and a document selected, a batch
\* response that is not JSON yields 0 signals; after a batch that yielded 0
\* signals the next call is a per-document call, the steps run in the order
\* batch, backfill, dedup, and when the backfill calls yielded 0 signals too
\* the heuristic fallback runs after them and supplies the signal.
C7_StepOrder ==
    /\ \A i \in DOMAIN calls :
          calls[i].kind = "batch" /\ calls[i].outcome = "not_json"
             => calls[i].yielded = 0
    /\ (AfterExtraction /\ OPENAI_API_KEY /\ selected # << >>) =>
          /\ calls[1].kind = "batch"
          /\ calls[1].yielded = 0 =>
                /\ Len(ExtractionCalls) >= 2
                /\ calls[2].kind = "article"
                /\ SubSeq(stages, 1, 3) = << "batch", "backfill", "dedup" >>
                /\ AllCallsEmpty =>
                      /\ stages = << "batch", "backfill", "dedup", "fallback" >>
                      /\ signals[1].type = "summary"
                      /\ signals[1].value.note = "Fallback"

\* C7 witness: the batch response was not JSON, the backfill was attempted on
\* two documents and came back empty, and the fallback fired
C7_Witness ==
    /\ pc = "done"
    /\ Len(calls) >= 3
    /\ calls[1].outcome = "not_json"
    /\ calls[2].kind = "article"
    /\ calls[3].kind = "article"
    /\ stages = << "batch", "backfill", "dedup", "fallback" >>

\* C8: whatever the extraction backend does, no exception leaves the
\* extraction stage, a call that raised or returned something other than the
\* documented list of signals contributes zero signals, and so does an entry
\* whose value is not a mapping or whose headline/topic is not a string.
C8_BackendFailuresIsolated ==
    /\ pc # "crashed"
    /\ \A i \in DOMAIN ExtractionCalls :
          ExtractionCalls[i].outcome \in {"exception", "not_json", "array"}
             => ExtractionCalls[i].yielded = 0
    /\ AfterExtraction => \A i \in DOMAIN signals : ~KeyRaises(signals[i])

\* the closed source list of the report call, when one was made
ReportGiven == ReportCalls[1].given

ReportFailed(cs) ==
    \/ ~OPENAI_API_KEY
    \/ \E i \in DOMAIN cs : cs[i].kind = "report" /\ cs[i].outcome = "exception"

\* C10: the report step always hands over to the write step and leaves
\* signals and sources as they were; when the report backend is not configured
\* or its call failed, report_md is "" and report_used_sources is [], and so
\* are report_markdown and report_used_sources of the artifact then written.
C10_ReportFailureIsHarmless ==
    [][/\ pc = "report" =>
             /\ pc' = "makedirs"
             /\ signals' = signals
             /\ sources' = sources
             /\ ReportFailed(calls') =>
                   report_md' = "" /\ report_used_sources' = << >>
       /\ (pc = "write" /\ pc' = "done") =>
             /\ artifact' # None
             /\ artifact'[1].signals = signals
             /\ artifact'[1].sources = sources
             /\ ReportFailed(calls) =>
                   /\ artifact'[1].report_markdown = ""
                   /\ artifact'[1].report_used_sources = << >>]_vars

\* C10 witness: the report call raised in a run with a selected document, and
\* the artifact was written with an empty report
C10_Witness ==
    /\ pc = "done"
    /\ OPENAI_API_KEY
    /\ selected # << >>
    /\ ReportCalls # << >>
    /\ ReportCalls[1].outcome = "exception"
    /\ artifact[1].report_markdown = ""
    /\ artifact[1].report_used_sources = << >>
    /\ artifact[1].sources # << >>

-----------------------------------------------------------------------------
(* The single-source builder kept next to the package (scripts:build_json.py): *)
(* it crawls the newsroom index, fetches every link, extracts signals in one  *)
(* call and writes company, generated_at, signals and sources.  Its list of   *)
(* fetched pages is held in enriched, its links in items.                     *)

MAX_ARTICLES == 6

RECURSIVE article_links_loop(_, _, _, _)
article_links_loop(links, seen, uniq, max_n) ==
    IF links = << >> THEN uniq
    ELSE LET u == Head(links)
             uniq2 == IF u \in seen THEN uniq ELSE Append(uniq, u)
         IN  IF Len(uniq2) >= max_n THEN uniq2
             ELSE article_links_loop(Tail(links), seen \cup {u}, uniq2, max_n)

\* discover_article_links(); ok is whether http_get(index_url) succeeded, and
\* raised is whether the call ends in the exception of http_get
discover_article_links(ok, max_n) ==
    IF ~ok THEN [raised |-> TRUE, links |-> << >>]
    ELSE LET media == SelectSeq(NewsroomIndex, LAMBDA a : HasMediaSegment(a.href))
         IN  [raised |-> FALSE,
              links |-> article_links_loop([i \in DOMAIN media |-> media[i].href],
                                           {}, << >>, max_n)]

\* the item the fetch loop of the single-source main() appends for a link
LegacyItem(url, ok) ==
    IF ok
    THEN [url |-> url, title |-> "Press", published_at |-> web[url].meta_date,
          text |-> web[url].text, error |-> FALSE]
    ELSE [url |-> url, title |-> "<url>", published_at |-> None,
          text |-> 0, error |-> TRUE]

LegacySummary(note, confidence) ==
    << [type |-> "summary", confidence |-> confidence, nan |-> FALSE,
        value |-> [Value("mapping", "<absent>", "<absent>") EXCEPT !.note = note]] >>

\* whether the validation loop of llm_extract_signals raises on entry s
LegacyEntryRaises(s) == ~s.dict \/ ~FloatOf(s.confidence).ok

\* {"type": str(...)[:40], "value": ..., "confidence": float(...)}
LegacyValidateSignal(s) ==
    [type |-> IF s.type = "<absent>" THEN "other" ELSE TypeOf(s.type),
     confidence |-> FloatOf(s.confidence).v, nan |-> FloatOf(s.confidence).nan,
     value |-> s.value]

\* llm_extract_signals(texts), resp being the answer of the chat completion
llm_extract_signals(texts, resp) ==
    IF ~OPENAI_API_KEY THEN LegacySummary("ohne LLM", 40)
    ELSE IF resp.kind # "signals" THEN LegacySummary("fehlgeschlagen", 20)
    ELSE IF \E i \in DOMAIN resp.entries : LegacyEntryRaises(resp.entries[i])
         THEN LegacySummary("fehlgeschlagen", 20)
    ELSE IF resp.entries = << >> THEN LegacySummary("kein verwertbares JSON", 30)
    ELSE [i \in DOMAIN resp.entries |-> LegacyValidateSignal(resp.entries[i])]

LegacyResponses == BatchResponses \cup {Resp("signals", << >>)}

InitLegacy ==
    /\ OPENAI_API_KEY \in BOOLEAN
    /\ SIGNAL_LIMIT = MaxSignalLimit
    /\ TOP_TEXTS = DEFAULT_TOP_TEXTS
    /\ web \in Webs
    /\ now \in 0..MaxTicks
    /\ pc = "legacy_discover"
    /\ items = << >>
    /\ idx = 0
    /\ enriched = << >>
    /\ sources = << >>
    /\ enriched_recent = << >>
    /\ filter_now = None
    /\ selected = << >>
    /\ signals = << >>
    /\ stages = << >>
    /\ calls = << >>
    /\ failures = {}
    /\ fetches = << >>
    /\ report_md = ""
    /\ report_used_sources = << >>
    /\ data_dir = FALSE
    /\ artifact = None

\* links = discover_article_links(NEWS_INDEX, MAX_ARTICLES), outside any try block
LegacyDiscover ==
    /\ pc = "legacy_discover"
    /\ UNCHANGED data_dir
    /\ \E ok \in BOOLEAN :
          LET r == discover_article_links(ok, MAX_ARTICLES) IN
          /\ items' = r.links
          /\ failures' = IF ok THEN {} ELSE {"newsroom"}
          /\ fetches' = Append(fetches, Fetch("newsroom", 0))
          /\ pc' = IF r.raised THEN "crashed" ELSE "legacy_fetch"
    /\ idx' = 1
    /\ UNCHANGED << config, now, fetched, enriched_recent, filter_now, selected,
                    extraction, report, artifact >>

\* one iteration of the fetch loop; a failed fetch is noted, not raised
LegacyFetchItem ==
    /\ pc = "legacy_fetch"
    /\ UNCHANGED data_dir
    /\ idx <= Len(items)
    /\ \E ok \in BOOLEAN :
          /\ enriched' = Append(enriched, LegacyItem(items[idx], ok))
          /\ failures' = IF ok THEN {} ELSE {"page"}
    /\ fetches' = Append(fetches, Fetch("page", idx))
    /\ idx' = idx + 1
    /\ UNCHANGED << config, now, pc, items, sources, enriched_recent, filter_now,
                    selected, extraction, report, artifact >>

\* signals = llm_extract_signals(texts_for_llm)
LegacyExtract ==
    /\ pc = "legacy_fetch"
    /\ UNCHANGED data_dir
    /\ idx > Len(items)
    /\ \E resp \in LegacyResponses :
          signals' = llm_extract_signals(SelectSeq(enriched, LAMBDA it : it.text > 0), resp)
    /\ failures' = {}
    /\ UNCHANGED fetches
    /\ pc' = "legacy_write"
    /\ UNCHANGED << config, now, items, idx, fetched, enriched_recent, filter_now,
                    selected, stages, calls, report, artifact >>

LegacyOut ==
    [company |-> COMPANY,
     generated_at |-> now,
     signals |-> signals,
     sources |-> [i \in DOMAIN enriched |->
                    [url |-> enriched[i].url, title |-> enriched[i].title,
                     published_at |-> enriched[i].published_at]]]

\* os.makedirs("data", exist_ok=True); json.dump(out, f)
LegacyWrite ==
    /\ pc = "legacy_write"
    /\ \E dir_ok \in BOOLEAN :
          IF dir_ok THEN data_dir' = TRUE /\ artifact' = Some(LegacyOut) /\ pc' = "done"
          ELSE data_dir' = data_dir /\ artifact' = artifact /\ pc' = "aborted"
    /\ UNCHANGED << config, now, items, idx, fetched, enriched_recent, filter_now,
                    selected, extraction, failures, fetches, report >>

NextLegacy ==
    \/ LegacyDiscover
    \/ LegacyFetchItem
    \/ LegacyExtract
    \/ LegacyWrite

SpecLegacy == InitLegacy /\ [][NextLegacy]_vars

-----------------------------------------------------------------------------
(* Discovery *)

\* sub occurs in s as a run of consecutive elements
Contains(s, sub) ==
    \E k \in 0..(Len(s) - Len(sub)) : SubSeq(s, k + 1, k + Len(sub)) = sub

DiscoveryPositions == {"newsroom", "google_news", "linkedin_rss", "gnews_linkedin"}

\* C11: Discoverer failures are isolated.  In the merged candidate list (items
\* before dedupe), whatever subset of the index-page fetch, the news feeds per
\* locale, the social feeds per url and the social-search feeds per locale
\* failed, every candidate of each one that did not fail is present; a failed
\* index-page fetch makes the site crawl contribute nothing and the run still
\* goes on through the other discoverers to dedupe.
C11_DiscovererFailuresIsolated ==
    pc = "dedupe" =>
          /\ "newsroom" \notin failures =>
                Contains(items, discover_from_newsroom(TRUE, MAX_PER_SOURCE))
          /\ "newsroom" \in failures =>
                \A i \in DOMAIN items : items[i].source # "newsroom"
          /\ \A lang \in Range(GOOGLE_NEWS_LANGS) :
                GNewsSource(lang) \notin failures =>
                   Contains(items, FeedItems(GoogleNewsFeed(lang), MAX_PER_SOURCE, "News",
                                             GNewsSource(lang), FALSE))
          /\ \A feed_url \in Range(LINKEDIN_RSS_URLS) :
                feed_url \notin failures =>
                   Contains(items, FeedItems(LinkedinRssFeed(feed_url), MAX_PER_SOURCE,
                                             "LinkedIn", "linkedin:rss", TRUE))
          /\ \A lang \in Range(GOOGLE_NEWS_LANGS) :
                LinkedinGNewsSource(lang) \notin failures =>
                   Contains(items, FeedItems(GNewsLinkedinFeed(lang), MAX_PER_SOURCE,
                                             "LinkedIn (via GNews)",
                                             LinkedinGNewsSource(lang), FALSE))

\* C11, the site crawl of the single-source builder: once the index-page fetch
\* has failed, the run has not ended in the exception of that fetch.
C11_SiteCrawlNeverPropagates == "newsroom" \in failures => pc # "crashed"

\* the index page and the first news feed failed, the later discoverers delivered
C11_Witness ==
    /\ pc = "dedupe"
    /\ failures = {"newsroom", "google-news:de"}
    /\ Len(items) = 4
    /\ items[1].source = "google-news:en"

-----------------------------------------------------------------------------
(* The artifact *)

\* the keys the display layer (app.py) reads from data/latest.json
RequiredKeys ==
    {"company", "generated_at", "signals", "sources", "report_markdown", "report_meta"}

Complete(a) == RequiredKeys \subseteq DOMAIN a /\ a.signals # << >>

C13_KeysWithMeta ==
    artifact # None =>
       /\ DOMAIN artifact[1] = {"company", "generated_at", "signals", "sources",
                                "report_markdown", "report_used_sources", "meta"}
       /\ {"lookback_days", "texts_selected"} \subseteq DOMAIN artifact[1].meta

\* C13: the artifact has exactly the top-level keys company, generated_at,
\* signals, sources, report_markdown, report_used_sources and report_meta, and
\* report_meta holds exactly lookback_days (the configured lookback),
\* texts_selected (the number of selected documents) and report_max_texts.
C13_KeysWithReportMeta ==
    artifact # None =>
       /\ DOMAIN artifact[1] = {"company", "generated_at", "signals", "sources",
                                "report_markdown", "report_used_sources", "report_meta"}
       /\ DOMAIN artifact[1].report_meta
             = {"lookback_days", "texts_selected", "report_max_texts"}
       /\ artifact[1].report_meta.lookback_days = LOOKBACK_DAYS
       /\ artifact[1].report_meta.texts_selected = Len(selected)
       /\ artifact[1].report_meta.report_max_texts = REPORT_MAX_TEXTS
       /\ artifact[1].company = COMPANY

\* C13 witness: an artifact written from two selected documents
C13_Witness ==
    /\ artifact # None
    /\ pc = "done"
    /\ artifact[1].report_meta.texts_selected = 2
    /\ Len(artifact[1].sources) >= 2

-----------------------------------------------------------------------------
(* Two runs on one snapshot *)

\* what a run started at clock reading t selects from the fetched documents
SelectedAt(docs, t) == Slice(SortByScore(RecencyFilter(docs, t), t), TOP_TEXTS)

\* C14: idempotence.  With the extraction backend disabled, the run at hand
\* (whose clock may have advanced) writes the same signals and sources as a
\* run at clock reading 0 on the same snapshot with the same fetch results.
C14_RunsAgree ==
    (artifact # None /\ ~OPENAI_API_KEY) =>
       /\ artifact[1].sources = sources
       /\ artifact[1].signals = heuristic_summary(COMPANY, SelectedAt(enriched, 0))

-----------------------------------------------------------------------------
(* Selection *)

SameScore(a, b, t) == ~ScoreGreater(a, b, t) /\ ~ScoreGreater(b, a, t)

\* the place of document d in the list q
Place(q, d) == CHOOSE i \in DOMAIN q : q[i] = d

\* C15: the selection step keeps at most TOP_TEXTS documents, all of them out
\* of the recency-filtered list, in descending order of score; no filtered
\* document left out scores strictly higher than a selected one; documents of
\* equal score stand in the order they had before the sort.
C15_Selection ==
    [][(pc = "select" /\ pc' = "extract") =>
          LET rest == SubSeq(enriched_recent', Len(selected') + 1, Len(enriched_recent'))
          IN  /\ Len(selected') <= TOP_TEXTS
              /\ enriched_recent' = selected' \o rest
              /\ Range(enriched_recent') = Range(enriched_recent)
              /\ Len(enriched_recent') = Len(enriched_recent)
              /\ Range(selected') \subseteq Range(RecencyFilter(enriched, filter_now[1]))
              /\ rest # << >> => Len(selected') = TOP_TEXTS
              /\ \A i, j \in DOMAIN selected' :
                    i < j =>
                       /\ ~ScoreGreater(selected'[j], selected'[i], now)
                       /\ SameScore(selected'[i], selected'[j], now) =>
                             Place(enriched_recent, selected'[i])
                                < Place(enriched_recent, selected'[j])
              /\ \A i \in DOMAIN selected', k \in DOMAIN rest :
                    /\ ~ScoreGreater(rest[k], selected'[i], now)
                    /\ SameScore(selected'[i], rest[k], now) =>
                          Place(enriched_recent, selected'[i])
                             < Place(enriched_recent, rest[k])]_vars

\* C15 witness: of three filtered documents of equal score from different
\* origins, discovered in the order 3, 1, 2, the first two are selected in
\* that order
C15_Witness ==
    /\ pc = "extract"
    /\ TOP_TEXTS = 2
    /\ Len(enriched_recent) = 3
    /\ enriched = << Doc(3, "linkedin:rss", None, 400), Doc(1, "newsroom", None, 700),
                     Doc(2, "google-news:de", None, 700) >>
    /\ selected = SubSeq(enriched, 1, 2)

-----------------------------------------------------------------------------
(* The fetch loop *)

\* C16: an iteration of the fetch loop always lists its candidate in sources
\* and hands over to the next iteration; when the page fetch failed the
\* candidate adds nothing to enriched, and when it did not fail the candidate
\* is processed as usual whatever happened to the candidates before it; the
\* loop is left only after the last candidate.
C16_FetchFailureIsolated ==
    [][/\ (pc = "fetch" /\ idx <= Len(items)) =>
             /\ pc' = "fetch"
             /\ idx' = idx + 1
             /\ sources' = Append(sources, Source(items[idx]))
             /\ "page" \in failures' => enriched' = enriched
             /\ "page" \notin failures' =>
                   enriched' = EnrichedAfter(enriched, items[idx], TRUE)
       /\ (pc = "fetch" /\ pc' # "fetch") =>
             /\ pc' = "filter"
             /\ idx = Len(items) + 1
             /\ sources = [i \in DOMAIN items |-> Source(items[i])]]_vars

\* C16 witness: the first candidate's page is long enough but its fetch failed;
\* the second candidate was fetched and kept, and both are listed in sources
C16_Witness ==
    /\ pc = "fetch"
    /\ idx = 3
    /\ failures = {}
    /\ items[1].prefetched_text = 0
    /\ web[items[1].url].text >= MinChars(items[1])
    /\ Len(enriched) = 1
    /\ enriched[1].url = items[2].url
    /\ Len(sources) = 2
    /\ sources[1].url = items[1].url

-----------------------------------------------------------------------------
(* The extractor *)

\* a step that makes a per-document call
ArticleCallStep ==
    /\ Len(calls') = Len(calls) + 1
    /\ calls'[Len(calls')].kind = "article"

\* C17: the per-document backfill is entered only when the batch step yielded
\* fewer than 3 signals; every per-document call is for one of the first 6
\* selected documents, taken in score order, adds at most 2 signals, and is
\* made only while the accumulated signal count is below the signal limit.
C17_Backfill ==
    [][/\ (pc = "extract" /\ pc' = "backfill") => Len(signals') < 3
       /\ ArticleCallStep =>
             /\ calls[1].kind = "batch" /\ calls[1].yielded < 3
             /\ calls'[Len(calls')].doc = Len(ExtractionCalls)
             /\ calls'[Len(calls')].doc <= Min(6, Len(selected))
             /\ Len(signals') - Len(signals) <= 2
             /\ Len(signals') - Len(signals) = calls'[Len(calls')].yielded
             /\ Len(signals) < SIGNAL_LIMIT]_vars

\* the stripped, lower-cased (headline, topic) pair of a signal
HeadlineTopic(s) == << StripLower(s.value.headline), StripLower(s.value.topic) >>

\* the places of q whose pair occurs at no earlier place
FirstOfPair(q) ==
    { i \in DOMAIN q :
        \A j \in 1..(i - 1) : HeadlineTopic(q[j]) # HeadlineTopic(q[i]) }

\* C18: when the dedup step of the extractor completes, no two signals of its
\* result have the same stripped, lower-cased (headline, topic) pair, and the
\* result is the first signal of each pair, in the batch-then-backfill order
\* of the list, cut to the first SIGNAL_LIMIT of them.
C18_SignalDedup ==
    [][(pc = "sigdedup" /\ pc' = "fallback") =>
          /\ \A i, j \in DOMAIN signals' :
                i # j => HeadlineTopic(signals'[i]) # HeadlineTopic(signals'[j])
          /\ Len(signals') <= SIGNAL_LIMIT
          /\ signals' = SubSeq(Pick(signals, FirstOfPair(signals)), 1, Len(signals'))
          /\ Len(signals') = Min(SIGNAL_LIMIT, Cardinality(FirstOfPair(signals)))]_vars

\* C18 witness: the batch step gave one signal, a per-document call added one
\* new pair and one signal whose pair differs from the batch signal's only in
\* case and trailing blanks; the dedup step kept the batch signal and the new one
C18_Witness ==
    /\ pc = "fallback"
    /\ Len(calls) = 2
    /\ calls[1].yielded = 1
    /\ calls[2].kind = "article" /\ calls[2].yielded = 2
    /\ Len(signals) = 2
    /\ signals[1].value.headline = "Deal"
    /\ signals[2].value.topic = "asia"

-----------------------------------------------------------------------------
(* Minimum text length *)

\* the minimum for the origin class of a candidate or document
MinimumFor(d) ==
    IF IsLinkedin(d.source, d.url) THEN MIN_TEXT_CHARS_LINKEDIN
    ELSE MIN_TEXT_CHARS_ARTICLE

LongEnough(docs) == \A i \in DOMAIN docs : docs[i].text >= MinimumFor(docs[i])

\* the length of the text the running iteration of the fetch loop has obtained
ObtainedLength(it, fetch_failed) ==
    IF it.prefetched_text > 0 THEN it.prefetched_text
    ELSE IF fetch_failed THEN 0
    ELSE web[it.url].text

\* C19: every document in enriched, in the recency-filtered list and in the
\* selection has a text at least as long as the minimum of its origin class;
\* an iteration of the fetch loop that obtained a shorter text leaves enriched
\* as it is, one that obtained at least the minimum appends the document, and
\* either way the candidate is appended to sources.
C19_MinimumLength ==
    [][/\ LongEnough(enriched') /\ LongEnough(enriched_recent') /\ LongEnough(selected')
       /\ (pc = "fetch" /\ idx <= Len(items)) =>
             LET it == items[idx]
                 len == ObtainedLength(it, "page" \in failures')
             IN  /\ len < MinimumFor(it) => enriched' = enriched
                 /\ len >= MinimumFor(it) =>
                       /\ Len(enriched') = Len(enriched) + 1
                       /\ enriched'[Len(enriched')].url = it.url
                       /\ enriched'[Len(enriched')].text = len
                 /\ sources' = Append(sources, Source(it))
       /\ pc \in {"filter", "select"} =>
             /\ Range(enriched_recent') \subseteq Range(enriched)
             /\ Range(selected') \subseteq Range(enriched)]_vars

\* C19 witness: a page of MIN_TEXT_CHARS_ARTICLE - 1 characters was fetched and
\* discarded but is listed in sources, and a social post shorter than the
\* article minimum was selected
C19_Witness ==
    /\ pc = "extract"
    /\ web[U2].text = MIN_TEXT_CHARS_ARTICLE - 1
    /\ \E i \in DOMAIN sources : sources[i].url = U2
    /\ \A i \in DOMAIN enriched : enriched[i].url # U2
    /\ \E i \in DOMAIN selected :
          /\ IsLinkedin(selected[i].source, selected[i].url)
          /\ selected[i].text < MIN_TEXT_CHARS_ARTICLE

-----------------------------------------------------------------------------
(* Size of a discoverer's result *)

\* C20: every discoverer call adds at most MAX_PER_SOURCE candidates to items.
C20_DiscovererBounded ==
    [][(pc \in DiscoveryPositions) =>
          (Len(items') - Len(items) <= MAX_PER_SOURCE)]_vars

-----------------------------------------------------------------------------
(* Requests and calls of a run *)

CallsOfKind(cs, kind) == {i \in DOMAIN cs : cs[i].kind = kind}

\* the position main() reaches after a discoverer
AfterDiscoverer(position) ==
    CASE position = "newsroom" -> "google_news"
      [] position = "google_news" -> "linkedin_rss"
      [] position = "linkedin_rss" -> "gnews_linkedin"
      [] position = "gnews_linkedin" -> "dedupe"

\* C21: no operation retries.  At every point of a run no discovery endpoint
\* and no candidate's page has been requested twice, the batch call and the
\* report call have been made at most once, and no document has had two
\* per-document calls; whether or not it failed, a discoverer hands over to
\* the next one, an iteration of the fetch loop to the next candidate, a
\* per-document call to the next document, the batch call to the backfill or
\* the dedup, and the report call to the write.
C21_NoRetries ==
    [][/\ Cardinality(Range(fetches')) = Len(fetches')
       /\ Cardinality(CallsOfKind(calls', "batch")) <= 1
       /\ Cardinality(CallsOfKind(calls', "report")) <= 1
       /\ \A i, j \in CallsOfKind(calls', "article") :
             calls'[i].doc = calls'[j].doc => i = j
       /\ (pc \in DiscoveryPositions) => pc' = AfterDiscoverer(pc)
       /\ (pc = "fetch" /\ idx <= Len(items)) => (pc' = "fetch" /\ idx' = idx + 1)
       /\ (pc = "extract" /\ calls' # calls) => pc' \in {"backfill", "sigdedup"}
       /\ ArticleCallStep =>
             /\ idx' = idx + 1
             /\ calls'[Len(calls')].doc = idx
             /\ pc' \in {"backfill", "sigdedup"}
       /\ (pc = "report") => pc' = "makedirs"]_vars

\* C21 witness: a run in which the index page, a feed, the batch call, two
\* per-document calls and the report call all failed went on to the write
\* step, with one request per endpoint and page and one call per document
C21_Witness ==
    /\ pc = "makedirs"
    /\ SubSeq(fetches, 1, Len(DiscoveryFetches)) = DiscoveryFetches
    /\ Len(fetches) >= Len(DiscoveryFetches) + 2
    /\ Len(sources) > Len(enriched)
    /\ Len(calls) = 4
    /\ \A i \in DOMAIN calls : calls[i].outcome = "exception"
    /\ calls[2].doc = 1 /\ calls[3].doc = 2

\* C22: in a run where the extraction backend is not configured, or where the
\* selection is empty, no batch and no per-document call is ever made: the
\* extraction block hands over to the fallback at once, with no signals, and
\* the fallback is the only extractor step of the run.
C22_NoCallWithoutBackendOrDocuments ==
    [][/\ (~OPENAI_API_KEY) =>
             CallsOfKind(calls', "batch") \cup CallsOfKind(calls', "article") = {}
       /\ (pc \in {"extract", "backfill", "sigdedup", "fallback"} /\ selected = << >>) =>
             CallsOfKind(calls', "batch") \cup CallsOfKind(calls', "article") = {}
       /\ (pc = "extract" /\ (~OPENAI_API_KEY \/ selected = << >>)) =>
             /\ pc' = "fallback"
             /\ signals' = << >>
             /\ stages' = << >>
             /\ calls' = calls
       /\ (pc = "fallback" /\ (~OPENAI_API_KEY \/ selected = << >>)) =>
             /\ stages' = << "fallback" >>
             /\ signals' = heuristic_summary(COMPANY, selected)
             /\ calls' = << >>]_vars

\* C22 witness: the backend is configured and candidates were found, but none
\* was selected; the run reached the report step on the fallback signal alone
C22_Witness ==
    /\ pc = "report"
    /\ OPENAI_API_KEY
    /\ sources # << >>
    /\ selected = << >>
    /\ calls = << >>
    /\ stages = << "fallback" >>
    /\ Len(signals) = 1
    /\ signals[1].value.headline = COMPANY

-----------------------------------------------------------------------------
(* The sources of the report *)

\* sub is q with some entries left out
SubSequence(sub, q) == \E I \in SUBSET DOMAIN q : Pick(q, I) = sub

\* C23: in every written artifact report_used_sources is sources with some
\* entries left out, has at most min(REPORT_MAX_TEXTS, number of selected
\* documents) entries, and is empty whenever report_markdown is empty.
C23_UsedSourcesOfReport ==
    artifact # None =>
       /\ SubSequence(artifact[1].report_used_sources, artifact[1].sources)
       /\ Len(artifact[1].report_used_sources)
             <= Min(REPORT_MAX_TEXTS, artifact[1].report_meta.texts_selected)
       /\ artifact[1].report_markdown = "" => artifact[1].report_used_sources = << >>

====
